---- MODULE Spec2Model ----
(***************************************************************************)
(* Model of official/recommendation/ncf_main.py: flag validation,          *)
(* parse_flags, and the control flow of run_ncf (producer lifecycle, the   *)
(* use_keras one-shot fit, and the estimator train/evaluate cycle loop).   *)
(*                                                                         *)
(* Calls into collaborators (producer, estimators, keras model) are        *)
(* recorded in the history variable `calls` in the order they are made.    *)
(* A Python assertion failure or an exception raised by a collaborator     *)
(* ends the run in pc = "raised"; a flag validator failure ends it in      *)
(* pc = "flag_error".  Assertions are modelled as enabled (no python -O).  *)
(***************************************************************************)
EXTENDS Integers, Sequences, FiniteSets, TLC

\* ---------------------------------------------------------------- bounds
MaxEpochs == 3          \* train_epochs, epochs_between_evals in 1..MaxEpochs
MaxBatch == 6           \* --batch_size in 1..MaxBatch
MaxEvalBatch == 9       \* --eval_batch_size in 0..MaxEvalBatch, or None
MaxGpus == 2            \* num_gpus in 0..MaxGpus
MaxHr == 2              \* hit-rate levels 0..MaxHr returned by evaluate
MaxBatchesPerEpoch == 2 \* producer.*_batches_per_epoch in 1..MaxBatchesPerEpoch

\* ------------------------------------------------------------- constants
\* rconst.NUM_EVAL_NEGATIVES and rconst.SYNTHETIC_BATCHES_PER_EPOCH live in
\* official/recommendation/constants.py; small stand-ins are used here.
NUM_EVAL_NEGATIVES == 3
SYNTHETIC_BATCHES_PER_EPOCH == 2

\* Python's None for an unset flag.
None == -1

VARIABLES
  FLAGS,                \* absl flag values (the command line)
  pc,                   \* position of the controlling thread
  params,               \* dict returned by parse_flags
  producer,             \* batch counts reported by the data producer
  total_training_cycle,
  num_train_steps,
  num_eval_steps,
  cycle_index,          \* loop variable of the cycle loop, -1 while unbound
  target_reached,
  hr,                   \* hit-rate of the latest evaluation, None before
  calls                 \* collaborator calls made so far, in order

vars == <<FLAGS, pc, params, producer, total_training_cycle, num_train_steps,
          num_eval_steps, cycle_index, target_reached, hr, calls>>

\* ------------------------------------------------------ call-log helpers
Idx(op) == {i \in DOMAIN calls : calls[i][1] = op}
Count(op) == Cardinality(Idx(op))
Before(opA, opB) == \A i \in Idx(opA) : \A j \in Idx(opB) : i < j

\* --------------------------------------------------------- flag handling
\* eval_size_check: the validator registered for --eval_batch_size.
eval_size_check_off_by_one(eval_batch_size) ==
  eval_batch_size = None \/ eval_batch_size >= NUM_EVAL_NEGATIVES

eval_size_check(eval_batch_size) ==
  eval_batch_size = None \/ eval_batch_size > NUM_EVAL_NEGATIVES

\* xla_validator: --use_xla_for_gpu is incompatible with --tpu.
xla_validator(flag_dict) ==
  ~flag_dict.use_xla_for_gpu \/ ~flag_dict.tpu

\* distribution_utils.per_device_batch_size: the batch is divided evenly
\* across the GPUs; a remainder is an error.
per_device_batch_size_raises(batch_size, num_gpus) ==
  num_gpus > 1 /\ batch_size % num_gpus # 0

per_device_batch_size(batch_size, num_gpus) ==
  IF num_gpus <= 1 THEN batch_size ELSE batch_size \div num_gpus

\* Python's `a or b` on integers / None.
PyOr(a, b) == IF a = None \/ a = 0 THEN b ELSE a

\* The two values parse_flags hands to per_device_batch_size.
rounded_batch_size_rounds_down(flags_obj) ==
  LET num_gpus == flags_obj.num_gpus
      num_devices == PyOr(num_gpus, 1)
  IN  (flags_obj.batch_size \div num_devices) * num_devices

rounded_batch_size(flags_obj) ==
  LET num_gpus == flags_obj.num_gpus
      num_devices == PyOr(num_gpus, 1)
  IN  ((flags_obj.batch_size + num_devices - 1) \div num_devices) * num_devices

rounded_eval_batch_size_device_divisor(flags_obj) ==
  LET num_gpus == flags_obj.num_gpus
      num_devices == PyOr(num_gpus, 1)
      eval_divisor == num_devices
      eval_batch_size == PyOr(flags_obj.eval_batch_size,
                              PyOr(flags_obj.batch_size, 1))
  IN  ((eval_batch_size + eval_divisor - 1) \div eval_divisor) * eval_divisor

rounded_eval_batch_size(flags_obj) ==
  LET num_gpus == flags_obj.num_gpus
      num_devices == PyOr(num_gpus, 1)
      eval_divisor == (NUM_EVAL_NEGATIVES + 1) * num_devices
      eval_batch_size == PyOr(flags_obj.eval_batch_size,
                              PyOr(flags_obj.batch_size, 1))
  IN  ((eval_batch_size + eval_divisor - 1) \div eval_divisor) * eval_divisor

parse_flags_raises(flags_obj) ==
  \/ per_device_batch_size_raises(rounded_batch_size(flags_obj),
                                  flags_obj.num_gpus)
  \/ per_device_batch_size_raises(rounded_eval_batch_size(flags_obj),
                                  flags_obj.num_gpus)

parse_flags(flags_obj) ==
  LET num_gpus == flags_obj.num_gpus
      num_devices == PyOr(num_gpus, 1)
  IN  [train_epochs |-> flags_obj.train_epochs,
       batches_per_step |-> num_devices,
       batch_size |-> per_device_batch_size(rounded_batch_size(flags_obj),
                                            num_gpus),
       eval_batch_size |->
         per_device_batch_size(rounded_eval_batch_size(flags_obj), num_gpus),
       num_gpus |-> num_gpus]

\* model_helpers.past_stop_threshold: stop once the metric has reached a
\* configured threshold.
past_stop_threshold(stop_threshold, eval_metric) ==
  stop_threshold # None /\ eval_metric >= stop_threshold

\* ------------------------------------------------------------ flag spaces
FlagSpace(batchSizes, evalBatchSizes, epochs, gpus, thresholds, bools) ==
  [train_epochs : epochs,
   epochs_between_evals : epochs,
   batch_size : batchSizes,
   eval_batch_size : evalBatchSizes,
   num_gpus : gpus,
   hr_threshold : thresholds,
   use_keras : bools,
   use_synthetic_data : bools,
   output_ml_perf_compliance_logging : bools,
   use_xla_for_gpu : bools,
   tpu : bools]

NoParams == [train_epochs |-> 0, batches_per_step |-> 0, batch_size |-> 0,
             eval_batch_size |-> 0, num_gpus |-> 0]
NoProducer == [train_batches_per_epoch |-> 0, eval_batches_per_epoch |-> 0]

InitRest ==
  /\ pc = "parse_args"
  /\ params = NoParams
  /\ producer = NoProducer
  /\ total_training_cycle = 0
  /\ num_train_steps = 0
  /\ num_eval_steps = 0
  /\ cycle_index = -1
  /\ target_reached = FALSE
  /\ hr = None
  /\ calls = <<>>

\* A run of the program: any command line within the bounds.
Init ==
  /\ FLAGS \in FlagSpace({1, MaxBatch},
                         {None, NUM_EVAL_NEGATIVES, NUM_EVAL_NEGATIVES + 1},
                         1..MaxEpochs, 0..MaxGpus,
                         {None} \cup (0..MaxHr), BOOLEAN)
  /\ InitRest

\* ----------------------------------------------------------------- actions
\* absl_app.run(main): flags are parsed and the registered validators run
\* before main is entered.
FlagsParse ==
  /\ pc = "parse_args"
  /\ pc' = IF eval_size_check(FLAGS.eval_batch_size) /\ xla_validator(FLAGS)
           THEN "run_ncf" ELSE "flag_error"
  /\ UNCHANGED <<FLAGS, params, producer, total_training_cycle,
                 num_train_steps, num_eval_steps, cycle_index, target_reached,
                 hr, calls>>

\* total_training_cycle = FLAGS.train_epochs // FLAGS.epochs_between_evals
TotalTrainingCycle_rounds_up(flags_obj) ==
  (flags_obj.train_epochs + flags_obj.epochs_between_evals - 1)
    \div flags_obj.epochs_between_evals

TotalTrainingCycle(flags_obj) ==
  flags_obj.train_epochs \div flags_obj.epochs_between_evals

\* The two assertions on the producer's batch counts.
batches_divide_evenly_train_only(prod, prms) ==
  prod.train_batches_per_epoch % prms.batches_per_step = 0

batches_divide_evenly(prod, prms) ==
  /\ prod.train_batches_per_epoch % prms.batches_per_step = 0
  /\ prod.eval_batches_per_epoch % prms.batches_per_step = 0

ProducerSpace ==
  [train_batches_per_epoch : 1..MaxBatchesPerEpoch,
   eval_batches_per_epoch : 1..MaxBatchesPerEpoch]

\* run_ncf up to, not including, producer.start(): parse_flags, the cycle
\* count, the producer and the step counts with their assertions.
RunNcfSetup ==
  /\ pc = "run_ncf"
  /\ IF parse_flags_raises(FLAGS)
     THEN /\ pc' = "raised"
          /\ UNCHANGED <<params, producer, total_training_cycle,
                         num_train_steps, num_eval_steps>>
     ELSE /\ params' = parse_flags(FLAGS)
          /\ total_training_cycle' = TotalTrainingCycle(FLAGS)
          /\ \E p \in ProducerSpace :
               /\ producer' = p
               /\ IF FLAGS.use_synthetic_data
                  THEN /\ num_train_steps' = SYNTHETIC_BATCHES_PER_EPOCH
                       /\ num_eval_steps' = SYNTHETIC_BATCHES_PER_EPOCH
                       /\ pc' = "producer_start"
                  ELSE /\ num_train_steps' =
                            p.train_batches_per_epoch
                              \div params'.batches_per_step
                       /\ num_eval_steps' =
                            p.eval_batches_per_epoch
                              \div params'.batches_per_step
                       /\ pc' = IF batches_divide_evenly(p, params')
                                THEN "producer_start" ELSE "raised"
  /\ UNCHANGED <<FLAGS, cycle_index, target_reached, hr, calls>>

\* producer.start(); target_reached = False; then the use_keras branch.
ProducerStart ==
  /\ pc = "producer_start"
  /\ calls' = Append(calls, <<"start">>)
  /\ target_reached' = FALSE
  /\ pc' = IF FLAGS.use_keras THEN "keras" ELSE "construct_estimator"
  /\ UNCHANGED <<FLAGS, params, producer, total_training_cycle,
                 num_train_steps, num_eval_steps, cycle_index, hr>>

\* The use_keras branch: build and compile the model, recompute
\* num_train_steps, fit once, return.
KerasFit_falls_through ==
  /\ pc = "keras"
  /\ num_train_steps' =
       producer.train_batches_per_epoch \div params.batches_per_step
  /\ calls' = Append(calls, <<"fit", num_train_steps', FLAGS.train_epochs>>)
  /\ \E raises \in BOOLEAN :
       pc' = IF raises THEN "raised" ELSE "construct_estimator"
  /\ UNCHANGED <<FLAGS, params, producer, total_training_cycle,
                 num_eval_steps, cycle_index, target_reached, hr>>

KerasFit ==
  /\ pc = "keras"
  /\ num_train_steps' =
       producer.train_batches_per_epoch \div params.batches_per_step
  /\ calls' = Append(calls, <<"fit", num_train_steps', FLAGS.train_epochs>>)
  /\ \E raises \in BOOLEAN :
       pc' = IF raises THEN "raised" ELSE "returned"
  /\ UNCHANGED <<FLAGS, params, producer, total_training_cycle,
                 num_eval_steps, cycle_index, target_reached, hr>>

\* construct_estimator(...) and log_and_get_hooks(...).
ConstructEstimator ==
  /\ pc = "construct_estimator"
  /\ calls' = Append(calls, <<"construct_estimator", num_train_steps>>)
  /\ pc' = "loop"
  /\ UNCHANGED <<FLAGS, params, producer, total_training_cycle,
                 num_train_steps, num_eval_steps, cycle_index, target_reached,
                 hr>>

\* for cycle_index in range(total_training_cycle): next iteration or exit;
\* the body starts with the MLPerf assertion.
LoopHead_one_more_cycle ==
  /\ pc = "loop"
  /\ IF cycle_index + 1 < total_training_cycle + 1
     THEN /\ cycle_index' = cycle_index + 1
          /\ pc' = IF \/ FLAGS.epochs_between_evals = 1
                      \/ ~FLAGS.output_ml_perf_compliance_logging
                   THEN "train" ELSE "raised"
     ELSE /\ cycle_index' = cycle_index
          /\ pc' = "stop_loop"
  /\ UNCHANGED <<FLAGS, params, producer, total_training_cycle,
                 num_train_steps, num_eval_steps, target_reached, hr, calls>>

LoopHead ==
  /\ pc = "loop"
  /\ IF cycle_index + 1 < total_training_cycle
     THEN /\ cycle_index' = cycle_index + 1
          /\ pc' = IF \/ FLAGS.epochs_between_evals = 1
                      \/ ~FLAGS.output_ml_perf_compliance_logging
                   THEN "train" ELSE "raised"
     ELSE /\ cycle_index' = cycle_index
          /\ pc' = "stop_loop"
  /\ UNCHANGED <<FLAGS, params, producer, total_training_cycle,
                 num_train_steps, num_eval_steps, target_reached, hr, calls>>

\* train_estimator.train(..., steps=num_train_steps); it may raise.
Train_stops_producer_on_raise ==
  /\ pc = "train"
  /\ \E raises \in BOOLEAN :
       IF raises
       THEN /\ calls' = Append(Append(calls, <<"train", num_train_steps>>),
                                <<"stop_loop">>)
            /\ pc' = "raised"
       ELSE /\ calls' = Append(calls, <<"train", num_train_steps>>)
            /\ pc' = "evaluate"
  /\ UNCHANGED <<FLAGS, params, producer, total_training_cycle,
                 num_train_steps, num_eval_steps, cycle_index, target_reached,
                 hr>>

Train ==
  /\ pc = "train"
  /\ calls' = Append(calls, <<"train", num_train_steps>>)
  /\ \E raises \in BOOLEAN :
       pc' = IF raises THEN "raised" ELSE "evaluate"
  /\ UNCHANGED <<FLAGS, params, producer, total_training_cycle,
                 num_train_steps, num_eval_steps, cycle_index, target_reached,
                 hr>>

\* eval_estimator.evaluate(..., steps=num_eval_steps); it may raise, else
\* hr is read from its result and the metrics are logged.
Evaluate ==
  /\ pc = "evaluate"
  /\ calls' = Append(calls, <<"evaluate", num_eval_steps>>)
  /\ \/ /\ pc' = "raised"
        /\ hr' = hr
     \/ \E h \in 0..MaxHr :
          /\ hr' = h
          /\ pc' = "check"
  /\ UNCHANGED <<FLAGS, params, producer, total_training_cycle,
                 num_train_steps, num_eval_steps, cycle_index, target_reached>>

\* if past_stop_threshold(FLAGS.hr_threshold, hr): target_reached = True; break
CheckThreshold_returns_on_break ==
  /\ pc = "check"
  /\ IF past_stop_threshold(FLAGS.hr_threshold, hr)
     THEN /\ target_reached' = TRUE
          /\ pc' = "returned"
     ELSE /\ target_reached' = target_reached
          /\ pc' = "loop"
  /\ UNCHANGED <<FLAGS, params, producer, total_training_cycle,
                 num_train_steps, num_eval_steps, cycle_index, hr, calls>>

CheckThreshold_no_break ==
  /\ pc = "check"
  /\ target_reached' =
       (target_reached \/ past_stop_threshold(FLAGS.hr_threshold, hr))
  /\ pc' = "loop"
  /\ UNCHANGED <<FLAGS, params, producer, total_training_cycle,
                 num_train_steps, num_eval_steps, cycle_index, hr, calls>>

CheckThreshold ==
  /\ pc = "check"
  /\ IF past_stop_threshold(FLAGS.hr_threshold, hr)
     THEN /\ target_reached' = TRUE
          /\ pc' = "stop_loop"
     ELSE /\ target_reached' = target_reached
          /\ pc' = "loop"
  /\ UNCHANGED <<FLAGS, params, producer, total_training_cycle,
                 num_train_steps, num_eval_steps, cycle_index, hr, calls>>

\* producer.stop_loop()
StopLoop ==
  /\ pc = "stop_loop"
  /\ calls' = Append(calls, <<"stop_loop">>)
  /\ pc' = "join"
  /\ UNCHANGED <<FLAGS, params, producer, total_training_cycle,
                 num_train_steps, num_eval_steps, cycle_index, target_reached,
                 hr>>

\* producer.join(), clear_session(), end of run_ncf.
Join ==
  /\ pc = "join"
  /\ calls' = Append(calls, <<"join">>)
  /\ pc' = "returned"
  /\ UNCHANGED <<FLAGS, params, producer, total_training_cycle,
                 num_train_steps, num_eval_steps, cycle_index, target_reached,
                 hr>>

Next ==
  \/ FlagsParse
  \/ RunNcfSetup
  \/ ProducerStart
  \/ KerasFit
  \/ ConstructEstimator
  \/ LoopHead
  \/ Train
  \/ Evaluate
  \/ CheckThreshold
  \/ StopLoop
  \/ Join

Spec == Init /\ [][Next]_vars

\* The configuration assembler over a wide range of batch-size flags: the run
\* machine above, started from command lines that vary the sizes and the
\* device count and keep the schedule to a single epoch.
InitParse ==
  /\ FLAGS \in FlagSpace(1..MaxBatch, {None} \cup (0..MaxEvalBatch),
                         {1}, 0..MaxGpus, {None, 0}, BOOLEAN)
  /\ InitRest

SpecParse == InitParse /\ [][Next]_vars

\* ------------------------------------------------------------ properties
\* parse_flags has returned its dict in this state.
Parsed == params # NoParams

\* The device count d of the claims: num_gpus, or 1 when num_gpus is 0.
DeviceCount == IF FLAGS.num_gpus = 0 THEN 1 ELSE FLAGS.num_gpus

\* The latest evaluation returned a hit-rate at or above a configured
\* threshold.
HitSeen ==
  /\ FLAGS.hr_threshold # None
  /\ hr # None
  /\ hr >= FLAGS.hr_threshold

\* C1: on the cycle-controller path (use_keras false), stop_loop() and then
\* join() are each invoked exactly once on every run that stops, by
\* threshold or by exhausting the cycles, and both come after the last
\* evaluate call.
C1_StopJoinOnceAfterLastEval ==
  ~FLAGS.use_keras =>
    /\ Count("stop_loop") <= 1
    /\ Count("join") <= Count("stop_loop")
    /\ Before("evaluate", "stop_loop")
    /\ Before("stop_loop", "join")
    /\ (pc = "join" => Count("stop_loop") = 1 /\ Count("join") = 0)
    /\ (pc = "returned" => Count("stop_loop") = 1 /\ Count("join") = 1)

C1_Witness ==
  /\ ~FLAGS.use_keras
  /\ pc = "returned"
  /\ target_reached
  /\ Count("evaluate") >= 2
  /\ Count("stop_loop") = 1
  /\ Count("join") = 1

\* C2: on every run of run_ncf that returns normally, on either training
\* path, start() was called exactly once before any train/fit call, and
\* stop_loop() followed by join() was called exactly once before the return.
C2_ProducerStoppedOnEveryReturn ==
  /\ (Count("train") + Count("fit") > 0 => Count("start") = 1)
  /\ Before("start", "train")
  /\ Before("start", "fit")
  /\ (pc = "returned" =>
        /\ Count("start") = 1
        /\ Count("stop_loop") = 1
        /\ Count("join") = 1
        /\ Before("stop_loop", "join"))

\* C3: when evaluate returns a hit-rate >= the configured hr_threshold on
\* cycle k = cycle_index + 1, exactly k train and k evaluate calls have been
\* made, and no later step of the run makes another train or evaluate call.
C3_StopsAtFirstHit ==
  [][HitSeen =>
       /\ Count("train") = cycle_index + 1
       /\ Count("evaluate") = cycle_index + 1
       /\ (Count("train"))' = Count("train")
       /\ (Count("evaluate"))' = Count("evaluate")
       /\ cycle_index' = cycle_index]_vars

C3_Witness ==
  /\ HitSeen
  /\ pc = "returned"
  /\ Count("train") = 2
  /\ Count("evaluate") = 2
  /\ total_training_cycle > 2

\* C4: total_training_cycle is the floor of train_epochs / epochs_between_evals
\* for positive inputs, and a cycle-loop run that reaches its end without
\* the threshold being reached made exactly that many train and evaluate
\* calls.
C4_CycleCount ==
  Parsed =>
    /\ total_training_cycle * FLAGS.epochs_between_evals <= FLAGS.train_epochs
    /\ FLAGS.train_epochs
         < (total_training_cycle + 1) * FLAGS.epochs_between_evals
    /\ (FLAGS.train_epochs < FLAGS.epochs_between_evals
          => total_training_cycle = 0)
    /\ (~FLAGS.use_keras /\ pc = "returned" /\ ~target_reached =>
          /\ Count("train") = total_training_cycle
          /\ Count("evaluate") = total_training_cycle)

C4_Witness ==
  /\ ~FLAGS.use_keras
  /\ pc = "returned"
  /\ ~target_reached
  /\ FLAGS.hr_threshold # None
  /\ FLAGS.train_epochs = 3
  /\ FLAGS.epochs_between_evals = 1
  /\ Count("evaluate") = 3

\* C5: for every device count d >= 1 and requested batch size b >= 1,
\* params["batch_size"] is the smallest multiple of d that is >= b, divided
\* by d with no remainder, i.e. ceil(b / d); parse_flags does not fail.
C5_TrainBatchSize ==
  /\ (pc \notin {"parse_args", "flag_error", "run_ncf"} => Parsed)
  /\ (Parsed /\ FLAGS.batch_size >= 1 =>
        LET d == DeviceCount
            b == FLAGS.batch_size
            m == CHOOSE x \in b..(b + d - 1) : x % d = 0
        IN  /\ params.batch_size * d = m
            /\ (params.batch_size - 1) * d < b
            /\ b <= params.batch_size * d)

C5_Witness ==
  /\ Parsed
  /\ FLAGS.num_gpus = 2
  /\ FLAGS.batch_size = 3
  /\ params.batch_size = 2

\* C6 as stated: params["eval_batch_size"] is divisible by
\* (NUM_EVAL_NEGATIVES + 1) * d.
C6_EvalBatchDivisibleByFullDivisor ==
  Parsed =>
    params.eval_batch_size % ((NUM_EVAL_NEGATIVES + 1) * DeviceCount) = 0

\* C6 amended: params["eval_batch_size"] is the per-device share: it is
\* divisible by NUM_EVAL_NEGATIVES + 1, and d times it (the size before
\* parse_flags divides it across the d devices) is divisible by
\* (NUM_EVAL_NEGATIVES + 1) * d and is at least the requested size.
C6_EvalBatchPerDevice ==
  Parsed =>
    LET d == DeviceCount
        e == IF FLAGS.eval_batch_size # None /\ FLAGS.eval_batch_size # 0
             THEN FLAGS.eval_batch_size ELSE FLAGS.batch_size
    IN  /\ params.eval_batch_size % (NUM_EVAL_NEGATIVES + 1) = 0
        /\ (params.eval_batch_size * d) % ((NUM_EVAL_NEGATIVES + 1) * d) = 0
        /\ params.eval_batch_size * d >= e
        /\ params.eval_batch_size > 0

C6_Witness ==
  /\ Parsed
  /\ FLAGS.num_gpus = 2
  /\ FLAGS.eval_batch_size = NUM_EVAL_NEGATIVES + 2
  /\ params.eval_batch_size = NUM_EVAL_NEGATIVES + 1

\* C7: a supplied eval_batch_size <= NUM_EVAL_NEGATIVES is rejected at flag
\* parsing, before the producer is started or anything is trained; a value
\* > NUM_EVAL_NEGATIVES or an unset value is accepted by this validator.
C7_EvalSizeValidation ==
  /\ (FLAGS.eval_batch_size # None
        /\ FLAGS.eval_batch_size <= NUM_EVAL_NEGATIVES =>
          /\ pc \in {"parse_args", "flag_error"}
          /\ calls = <<>>
          /\ ~Parsed)
  /\ (FLAGS.eval_batch_size = None
        \/ FLAGS.eval_batch_size > NUM_EVAL_NEGATIVES =>
          (pc = "flag_error" => FLAGS.use_xla_for_gpu /\ FLAGS.tpu))

C7_Witness ==
  /\ pc = "flag_error"
  /\ FLAGS.eval_batch_size = NUM_EVAL_NEGATIVES
  /\ ~FLAGS.use_xla_for_gpu
  /\ calls = <<>>

\* C8: in real-data mode, a producer batch count that is not a multiple of
\* params["batches_per_step"] fails the run by assertion before start() and
\* before any train, evaluate or fit call; otherwise num_train_steps and
\* num_eval_steps are the exact quotients.
C8_BatchesDivideOrFail ==
  (~FLAGS.use_synthetic_data /\ producer # NoProducer) =>
    IF \/ producer.train_batches_per_epoch % params.batches_per_step # 0
       \/ producer.eval_batches_per_epoch % params.batches_per_step # 0
    THEN pc = "raised" /\ calls = <<>>
    ELSE /\ num_train_steps * params.batches_per_step
              = producer.train_batches_per_epoch
         /\ num_eval_steps * params.batches_per_step
              = producer.eval_batches_per_epoch

C8_Witness ==
  /\ ~FLAGS.use_synthetic_data
  /\ producer # NoProducer
  /\ producer.train_batches_per_epoch % params.batches_per_step = 0
  /\ producer.eval_batches_per_epoch % params.batches_per_step # 0
  /\ pc = "raised"
  /\ calls = <<>>

\* C9: with use_keras, fit is called once, for FLAGS.train_epochs epochs, and
\* no estimator is constructed, trained or evaluated; without use_keras, fit
\* is never called.
C9_KerasExclusive ==
  IF FLAGS.use_keras
  THEN /\ Count("construct_estimator") = 0
       /\ Count("train") = 0
       /\ Count("evaluate") = 0
       /\ Count("fit") <= 1
       /\ (pc = "returned" => Count("fit") = 1)
       /\ \A i \in Idx("fit") : calls[i][3] = FLAGS.train_epochs
  ELSE Count("fit") = 0

C9_Witness ==
  /\ FLAGS.use_keras
  /\ pc = "returned"
  /\ Count("fit") = 1
  /\ FLAGS.train_epochs > 1

\* C10: in the cycle loop train and evaluate strictly alternate, train
\* first, with steps num_train_steps and num_eval_steps; the stop condition
\* is checked only right after an evaluate; the number of evaluate calls is
\* the number of train calls or one less and never exceeds
\* total_training_cycle.
C10_TrainEvalAlternate ==
  ~FLAGS.use_keras =>
    /\ \A i \in Idx("train") :
         /\ calls[i][2] = num_train_steps
         /\ i > 1
         /\ calls[i - 1][1] \in {"construct_estimator", "evaluate"}
    /\ \A i \in Idx("evaluate") :
         /\ calls[i][2] = num_eval_steps
         /\ i > 1
         /\ calls[i - 1][1] = "train"
    /\ (pc = "check" => calls[Len(calls)][1] = "evaluate")
    /\ (target_reached => Count("evaluate") >= 1)
    /\ Count("evaluate") \in {Count("train"), Count("train") - 1}
    /\ Count("train") <= total_training_cycle
    /\ Count("evaluate") <= total_training_cycle

C10_Witness ==
  /\ ~FLAGS.use_keras
  /\ pc = "evaluate"
  /\ Count("train") = 2
  /\ Count("evaluate") = 1

\* A train or evaluate call of the cycle loop raised: the run has ended by an
\* exception and that call is the last one made.
RaisedInCycle ==
  /\ pc = "raised"
  /\ Len(calls) > 0
  /\ calls[Len(calls)][1] \in {"train", "evaluate"}

\* C11: when a train or evaluate call raises, the exception ends run_ncf with
\* no retry: the step that makes the call either goes on (train to evaluate,
\* evaluate to the threshold check) or ends the run with that call as its
\* last one and with stop_loop() and join() never invoked; nothing happens
\* after the run has ended by an exception.
C11_RaisePropagatesProducerNotStopped ==
  [][/\ (pc = "train" => pc' \in {"evaluate", "raised"})
     /\ (pc = "evaluate" => pc' \in {"check", "raised"})
     /\ (pc \in {"train", "evaluate"} /\ pc' = "raised" =>
           /\ Len(calls') = Len(calls) + 1
           /\ calls'[Len(calls')][1] = pc
           /\ (Count("train"))' + (Count("evaluate"))'
                = Count("train") + Count("evaluate") + 1
           /\ (Count("stop_loop"))' = 0
           /\ (Count("join"))' = 0)
     /\ (pc = "raised" => pc' = "raised" /\ calls' = calls)]_vars

C11_Witness ==
  /\ RaisedInCycle
  /\ calls[Len(calls)][1] = "train"
  /\ Count("train") = 2
  /\ Count("evaluate") = 1
  /\ Count("stop_loop") = 0
  /\ Count("join") = 0

====
